---- MODULE Spec2Model ----
(***************************************************************************)
(* Model of the cart state provider (CartProvider) and of the              *)
(* change-password form (ChangePassword).                                  *)
(*                                                                         *)
(* React state is modelled as the committed value of each hook (what the   *)
(* closures of the latest render see) plus the value the queued updates    *)
(* lead to (applied in order, as React does at the next render; updates    *)
(* made in one handler or continuation are batched).  An array is a record *)
(* [ref, items]: ref is the identity of the JavaScript array, which        *)
(* decides whether the [cartItems] effect runs again.  A handler, a        *)
(* promise continuation, a timer callback, a re-render and an effect flush *)
(* are each one step; a response or a timer may arrive between any two.    *)
(***************************************************************************)
EXTENDS Integers, Sequences, FiniteSets, TLC

VARIABLES
  token,          \* getToken(): TRUE when a session token is present
  localStorage,   \* the 'cartItems' entry: absent, or a JSON text
  cartItems,      \* committed state of useState([])
  totalPrice,     \* committed state of useState(0)
  pendingItems,   \* cartItems after the queued setCartItems updates
  pendingTotal,   \* totalPrice after the queued setTotalPrice updates
  mountPending,   \* the effects of the first render have not run yet
  effectPending,  \* the [cartItems] effect of the latest commit has not run
  getPending,     \* the GET /api/cart of syncFromServer is in flight
  inflight,       \* POST / DELETE / PUT requests awaiting their response
  timers,         \* checkout's setTimeout callbacks, each with its closure
  checkoutResult, \* how the last checkout promise settled
  nops,           \* number of operations the UI has called
  savedAtMount,   \* history: the local-storage entry when the provider mounted
  lastEvent,      \* history: the handler or response that ran last step
  tally,          \* history: additions requested since the cart was at rest
  opsAtSuccess,   \* history: nops when checkout last resolved, -1 before
  reloadedFrom,   \* history: the cart shown when the page was last reloaded
  formData,       \* ChangePassword: the three fields
  errors,         \* ChangePassword: field name -> message
  loading,        \* ChangePassword: a submission is running
  success,        \* ChangePassword: the success message, '' when none
  error,          \* ChangePassword: the error message, '' when none
  awaiting,       \* handleSubmit is at its await
  redirects,      \* armed setTimeout(() => navigate('/profile')) callbacks
  location,       \* the route shown
  validated       \* history: what validateForm last judged, and how

cartVars == <<token, localStorage, cartItems, totalPrice, pendingItems,
              pendingTotal, mountPending, effectPending, getPending, inflight,
              timers, checkoutResult, nops, savedAtMount, lastEvent, tally,
              opsAtSuccess, reloadedFrom>>

formVars == <<formData, errors, loading, success, error, awaiting, redirects,
              location, validated>>

vars == <<cartVars, formVars>>

----------------------------------------------------------------------------
(* Bounds *)

\* Operations the UI calls in one session.
MaxOps == 2

\* Length of the filler of the passwords typed.
MaxPad == 5

\* Valid submissions in one visit of the form.
MaxSubmits == 2

----------------------------------------------------------------------------
(* Values *)

Undefined == "undefined"

\* Products the UI passes to addToCart: some carry id, some only _id.
Products ==
  { [_id |-> Undefined, id |-> "p1", price |-> 2],
    [_id |-> "p1", id |-> Undefined, price |-> 2] }

ProductIds == {"p1", "p2"}

\* Quantities the UI passes to addToCart and to updateQuantity.
AddQuantities == {-1, 1}

NewQuantities == {0, 3}

\* product._id || product.id
ProductKey(product) ==
  IF product._id # Undefined THEN product._id ELSE product.id

\* A line item; title and the other product fields are carried along by the
\* code but never read by it.
Item(id, price, quantity) == [id |-> id, price |-> price, quantity |-> quantity]

Arr(ref, items) == [ref |-> ref, items |-> items]

RECURSIVE Sum(_)
\* items.reduce((total, item) => total + (item.price * item.quantity), 0)
Sum(items) ==
  IF items = << >> THEN 0
  ELSE Head(items).price * Head(items).quantity + Sum(Tail(items))

\* items.filter(item => item.id !== productId)
Filter(items, productId) ==
  SelectSeq(items, LAMBDA item : item.id # productId)

\* items.map(item => item.id === productId ? {...item, quantity} : item)
MapQuantity(items, productId, quantity) ==
  [i \in 1..Len(items) |->
     IF items[i].id = productId
     THEN [items[i] EXCEPT !.quantity = quantity]
     ELSE items[i]]

\* items.find(item => item.id === productId) !== undefined
Has(items, productId) == \E i \in 1..Len(items) : items[i].id = productId

\* items.find(item => item.id === productId): the first match
Find(items, productId) ==
  items[CHOOSE i \in 1..Len(items) :
          /\ items[i].id = productId
          /\ \A j \in 1..(i - 1) : items[j].id # productId]

----------------------------------------------------------------------------
(* JSON.stringify / JSON.parse of the cart, and the local-storage entry *)

\* An object is written with the members whose value is defined; a member
\* whose value is undefined is left out of the text.
StringifyItem(item) ==
  [k \in { f \in {"id"} : item[f] # Undefined } \cup {"price", "quantity"}
     |-> item[k]]

Stringify(items) == [i \in 1..Len(items) |-> StringifyItem(items[i])]

\* Reading a member the text does not have yields undefined.
ParseItem(object) ==
  Item(IF "id" \in DOMAIN object THEN object.id ELSE Undefined,
       object.price, object.quantity)

Parse(text) == [i \in 1..Len(text) |-> ParseItem(text[i])]

\* localStorage.getItem('cartItems') === null
NoEntry == [exists |-> FALSE, text |-> << >>]

Entry(text) == [exists |-> TRUE, text |-> text]

----------------------------------------------------------------------------
(* Requests, events and array identities *)

NoProduct == [_id |-> Undefined, id |-> Undefined, price |-> 0]

\* A request in flight with what its continuation closes over: prev is the
\* cartItems of the render the handler was called in.  accepted (history)
\* collects the effects of later operations the server accepted meanwhile.
Request(op, product, productId, quantity, prev) ==
  [op |-> op, product |-> product, productId |-> productId,
   quantity |-> quantity, prev |-> prev, accepted |-> {}]

\* prev is the closure's cartItems; before and beforeTotal are the queued
\* cartItems and totalPrice just before the step.
Event(kind, op, product, productId, quantity, ok, prev, accepted) ==
  [kind |-> kind, op |-> op, product |-> product, productId |-> productId,
   quantity |-> quantity, ok |-> ok, prev |-> prev, before |-> pendingItems,
   beforeTotal |-> pendingTotal, accepted |-> accepted]

AcceptedEffect(kind, productId, quantity) ==
  [kind |-> kind, productId |-> productId, quantity |-> quantity]

\* The arrays the program still holds a reference to.
LiveRefs ==
  {cartItems.ref, pendingItems.ref}
    \cup { inflight[i].prev.ref : i \in 1..Len(inflight) }
    \cup { timers[i].ref : i \in 1..Len(timers) }

\* The identity of a newly created array: one no live array has.
FreshRef ==
  CHOOSE r \in 0..Cardinality(LiveRefs) :
    /\ r \notin LiveRefs
    /\ \A q \in 0..(r - 1) : q \in LiveRefs

RemoveAt(seq, i) == SubSeq(seq, 1, i - 1) \o SubSeq(seq, i + 1, Len(seq))

----------------------------------------------------------------------------
(* The handlers, as functions of the hook state they write *)

\* What a handler writes: the queued cartItems and totalPrice, the requests
\* sent and the local-storage entry.
Cur ==
  [items |-> pendingItems, total |-> pendingTotal, reqs |-> inflight,
   ls |-> localStorage]

\* removeFromCart sending its DELETE without looking at the token
removeFromCartAlwaysSends(s, closure, productId, ref) ==
  LET updatedItems == Arr(ref, Filter(closure.items, productId))
  IN  [s EXCEPT
         !.items = updatedItems,
         !.total = Sum(updatedItems.items),
         !.reqs = Append(@, Request("delete", NoProduct, productId, 0, closure))]

removeFromCart(s, closure, productId, ref) ==
  LET updatedItems == Arr(ref, Filter(closure.items, productId))
  IN  [s EXCEPT
         !.items = updatedItems,
         !.total = Sum(updatedItems.items),
         !.reqs = IF token
                  THEN Append(@, Request("delete", NoProduct, productId, 0, closure))
                  ELSE @]

\* updateQuantity without its newQuantity <= 0 branch
updateQuantityKeepsLine(s, closure, productId, newQuantity, ref) ==
  LET updatedItems ==
        Arr(ref, MapQuantity(closure.items, productId, newQuantity))
  IN  [s EXCEPT
         !.items = updatedItems,
         !.total = Sum(updatedItems.items),
         !.reqs = IF token
                  THEN Append(@, Request("put", NoProduct, productId,
                                         newQuantity, closure))
                  ELSE @]

updateQuantity(s, closure, productId, newQuantity, ref) ==
  IF newQuantity <= 0
  THEN removeFromCart(s, closure, productId, ref)
  ELSE LET updatedItems ==
             Arr(ref, MapQuantity(closure.items, productId, newQuantity))
       IN  [s EXCEPT
              !.items = updatedItems,
              !.total = Sum(updatedItems.items),
              !.reqs = IF token
                       THEN Append(@, Request("put", NoProduct, productId,
                                              newQuantity, closure))
                       ELSE @]

clearCart(s, closure, ref) ==
  IF token
  THEN [s EXCEPT
          !.items = Arr(ref, << >>),
          !.total = 0,
          !.reqs = Append(@, Request("clear", NoProduct, Undefined, 0, closure))]
  ELSE [s EXCEPT !.items = Arr(ref, << >>), !.total = 0, !.ls = NoEntry]

\* A rollback that restores the list and forgets the price
rollbackItemsOnly(s, prevItems) == [s EXCEPT !.items = prevItems]

\* The .catch of removeFromCart, updateQuantity and clearCart
rollback(s, prevItems) ==
  [s EXCEPT !.items = prevItems, !.total = Sum(prevItems.items)]

\* updateTotalPrice() of the render whose cartItems is closure
updateTotalPrice(s, closure) == [s EXCEPT !.total = Sum(closure.items)]

\* addToCart after a successful POST (lines 22-43)
addSynced(s, closure, product, quantity, ref) ==
  LET key == ProductKey(product)
      set ==
        IF Has(closure.items, key)
        THEN LET newQuantity == Find(closure.items, key).quantity + quantity
             IN  [s EXCEPT
                    !.items = Arr(ref, MapQuantity(@.items, key, newQuantity))]
        ELSE [s EXCEPT
                !.items = Arr(ref, Append(@.items,
                                          Item(key, product.price, quantity)))]
  IN  updateTotalPrice(set, closure)

\* addToCart for a guest or after a failed POST (lines 50-69)
addLocal(s, closure, product, quantity, ref) ==
  LET set ==
        IF Has(closure.items, product.id)
        THEN LET newQuantity ==
                   Find(closure.items, product.id).quantity + quantity
             IN  IF newQuantity <= 0
                 THEN removeFromCart(s, closure, product.id, ref)
                 ELSE [s EXCEPT
                         !.items = Arr(ref, MapQuantity(@.items, product.id,
                                                        newQuantity))]
        ELSE [s EXCEPT
                !.items = Arr(ref, Append(@.items,
                                          Item(product.id, product.price,
                                               quantity)))]
  IN  updateTotalPrice(set, closure)

\* The effect without its updateTotalPrice()
persistEffectNoTotal(s, closure) ==
  [s EXCEPT !.ls = Entry(Stringify(closure.items))]

\* The effect without its localStorage.setItem
persistEffectNoSave(s, closure) == updateTotalPrice(s, closure)

\* The [cartItems] effect of the render whose cartItems is closure
persistEffect(s, closure) ==
  updateTotalPrice([s EXCEPT !.ls = Entry(Stringify(closure.items))], closure)

Write(s) ==
  /\ pendingItems' = s.items
  /\ pendingTotal' = s.total
  /\ inflight' = s.reqs
  /\ localStorage' = s.ls

----------------------------------------------------------------------------
(* History bookkeeping (reads the state, never steers it) *)

NoArr == Arr(0, << >>)

NoEvent ==
  [kind |-> "none", op |-> "none", product |-> NoProduct,
   productId |-> Undefined, quantity |-> 0, ok |-> TRUE, prev |-> NoArr,
   before |-> NoArr, beforeTotal |-> 0, accepted |-> {}]

CallEvent(op, product, productId, quantity) ==
  Event("call", op, product, productId, quantity, TRUE, cartItems, {})

NoTally == [state |-> "idle", base |-> << >>, add |-> [k \in ProductIds |-> 0]]

\* Nothing is queued, scheduled or in flight.
AtRest ==
  /\ ~mountPending
  /\ ~effectPending
  /\ ~getPending
  /\ inflight = << >>
  /\ timers = << >>
  /\ pendingItems = cartItems
  /\ pendingTotal = totalPrice

\* The tally follows the additions of products that carry an id, with a
\* positive quantity, from a cart at rest; anything else ends it.
TallyAdd(product, quantity) ==
  IF tally.state = "void" THEN tally
  ELSE IF quantity <= 0 \/ product.id = Undefined
       THEN [tally EXCEPT !.state = "void"]
  ELSE IF tally.state = "on"
       THEN [tally EXCEPT !.add[product.id] = @ + quantity]
  ELSE IF AtRest
       THEN [state |-> "on", base |-> cartItems.items,
             add |-> [k \in ProductIds |->
                        IF k = product.id THEN quantity ELSE 0]]
  ELSE [tally EXCEPT !.state = "void"]

TallyOther ==
  IF tally.state = "on" THEN [tally EXCEPT !.state = "void"] ELSE tally

\* The page has not been reloaded.
NotReloaded == [known |-> FALSE, items |-> << >>, total |-> 0, nops |-> 0]

----------------------------------------------------------------------------
(* ChangePassword: values.  A string is the sequence of its characters. *)

MinLength == 8

Lower == {"a"}

Upper == {"A"}

Digit == {"1"}

\* "." of a regular expression matches any character but these.  The fields
\* are single-line inputs, which hold none.
LineTerminators == {"\n", "\r"}

Chars == Lower \cup Upper \cup Digit

RECURSIVE Strings(_)
\* The strings over Chars of at most n characters
Strings(n) ==
  IF n = 0 THEN { << >> }
  ELSE Strings(n - 1)
         \cup { Append(t, c) : t \in { u \in Strings(n - 1) : Len(u) = n - 1 },
                               c \in Chars }

Pad(k) == [i \in 1..k |-> "#"]

\* What the user types as a new password: no filler or a long one, then a
\* tail with room for one character of each class.
Passwords ==
  { Pad(k) \o t : k \in {0, MaxPad - 1, MaxPad},
                  t \in Strings(Cardinality(Chars)) }

CurrentPasswords == { << >>, <<"a">> }

\* What the user types to confirm: nothing, or a password that satisfies
\* the rules, or one that lacks a digit, or a short one.
ConfirmPasswords ==
  { << >>,
    Pad(MinLength - Cardinality(Chars)) \o <<"a", "A", "1">>,
    Pad(MinLength - Cardinality(Chars)) \o <<"a", "A", "a">>,
    <<"a", "A", "1">> }

EmptyForm ==
  [currentPassword |-> << >>, newPassword |-> << >>, confirmPassword |-> << >>]

\* (?=.*X): some character of the class follows position p, with no line
\* terminator before it.
Lookahead(str, p, class) ==
  \E j \in (p + 1)..Len(str) :
    /\ str[j] \in class
    /\ \A i \in (p + 1)..(j - 1) : str[i] \notin LineTerminators

\* The pattern without its (?=.*\d)
PasswordPatternNoDigit(str) ==
  \E p \in 0..Len(str) :
    /\ Lookahead(str, p, Lower)
    /\ Lookahead(str, p, Upper)

\* /(?=.*[a-z])(?=.*[A-Z])(?=.*\d)/.test(str): the three lookaheads hold at
\* some position.
PasswordPattern(str) ==
  \E p \in 0..Len(str) :
    /\ Lookahead(str, p, Lower)
    /\ Lookahead(str, p, Upper)
    /\ Lookahead(str, p, Digit)

\* The newErrors object validateForm builds (lines 42-60)
newErrors(data) ==
  LET current ==
        IF data.currentPassword = << >>
        THEN {<<"currentPassword", "Current password is required">>}
        ELSE {}
      new ==
        IF data.newPassword = << >>
        THEN {<<"newPassword", "New password is required">>}
        ELSE IF Len(data.newPassword) < MinLength
        THEN {<<"newPassword", "Password must be at least 8 characters long">>}
        ELSE IF ~PasswordPattern(data.newPassword)
        THEN {<<"newPassword", "Password must contain at least one uppercase letter, one lowercase letter, and one number">>}
        ELSE {}
      confirm ==
        IF data.confirmPassword = << >>
        THEN {<<"confirmPassword", "Please confirm your new password">>}
        ELSE IF data.newPassword # data.confirmPassword
        THEN {<<"confirmPassword", "Passwords do not match">>}
        ELSE {}
      set == current \cup new \cup confirm
  IN  [k \in { m[1] : m \in set } |-> (CHOOSE m \in set : m[1] = k)[2]]

\* validateForm's return value: Object.keys(newErrors).length === 0
validateForm(data) == DOMAIN newErrors(data) = {}

NotValidated == [done |-> FALSE, data |-> EmptyForm, result |-> FALSE]

\* The state of the form after construction (lines 26-39)
FormConstructed ==
  /\ formData = EmptyForm
  /\ errors = << >>
  /\ loading = FALSE
  /\ success = ""
  /\ error = ""
  /\ awaiting = FALSE
  /\ redirects = 0
  /\ location = "/change-password"
  /\ validated = NotValidated

----------------------------------------------------------------------------
(* Construction *)

\* Carts an earlier session of this provider may have left in local storage.
SavedCarts ==
  { << >>,
    <<Item("p1", 2, 1), Item("p2", 3, 2)>> }

\* The state after the first render: useState([]) and useState(0), the two
\* effects scheduled.
Init ==
  /\ token \in BOOLEAN
  /\ localStorage \in {NoEntry} \cup { Entry(Stringify(c)) : c \in SavedCarts }
  /\ cartItems = Arr(0, << >>)
  /\ totalPrice = 0
  /\ pendingItems = cartItems
  /\ pendingTotal = 0
  /\ mountPending = TRUE
  /\ effectPending = FALSE
  /\ getPending = FALSE
  /\ inflight = << >>
  /\ timers = << >>
  /\ checkoutResult = "none"
  /\ nops = 0
  /\ savedAtMount = localStorage
  /\ lastEvent = NoEvent
  /\ tally = NoTally
  /\ opsAtSuccess = -1
  /\ reloadedFrom = NotReloaded
  /\ FormConstructed

----------------------------------------------------------------------------
(* React: the effects and the re-render *)

\* The effects of the first render without the load of the stored cart
MountEffectsNoLoad ==
  /\ mountPending
  /\ mountPending' = FALSE
  /\ pendingItems' = pendingItems
  /\ getPending' = token
  /\ localStorage' = persistEffect(Cur, cartItems).ls
  /\ pendingTotal' = persistEffect(Cur, cartItems).total
  /\ lastEvent' = Event("mount", "none", NoProduct, Undefined, 0, TRUE,
                        cartItems, {})
  /\ UNCHANGED <<formVars, token, cartItems, totalPrice, effectPending, inflight, timers,
                 checkoutResult, nops, savedAtMount, tally, opsAtSuccess, reloadedFrom>>

\* The two effects of the first render, run in order in one flush: the mount
\* effect up to the await of syncFromServer, then the [cartItems] effect with
\* the first render's closure (cartItems = []).
MountEffects ==
  /\ mountPending
  /\ mountPending' = FALSE
  /\ pendingItems' =
       IF localStorage.exists
       THEN Arr(FreshRef, Parse(localStorage.text))
       ELSE pendingItems
  /\ getPending' = token
  /\ localStorage' = persistEffect(Cur, cartItems).ls
  /\ pendingTotal' = persistEffect(Cur, cartItems).total
  /\ lastEvent' = Event("mount", "none", NoProduct, Undefined, 0, TRUE,
                        cartItems, {})
  /\ UNCHANGED <<formVars, token, cartItems, totalPrice, effectPending, inflight, timers,
                 checkoutResult, nops, savedAtMount, tally, opsAtSuccess, reloadedFrom>>

\* React commits the queued updates; the [cartItems] effect is scheduled
\* when the array committed is another array.
Render ==
  /\ ~mountPending
  /\ ~effectPending
  /\ pendingItems # cartItems \/ pendingTotal # totalPrice
  /\ cartItems' = pendingItems
  /\ totalPrice' = pendingTotal
  /\ effectPending' = (pendingItems.ref # cartItems.ref)
  /\ lastEvent' = NoEvent
  /\ UNCHANGED <<formVars, token, localStorage, pendingItems, pendingTotal, mountPending,
                 getPending, inflight, timers, checkoutResult, nops,
                 savedAtMount, tally, opsAtSuccess, reloadedFrom>>

\* useEffect(..., [cartItems]) (lines 209-213)
PersistEffect ==
  /\ effectPending
  /\ effectPending' = FALSE
  /\ Write(persistEffect(Cur, cartItems))
  /\ lastEvent' = NoEvent
  /\ UNCHANGED <<formVars, token, cartItems, totalPrice, mountPending, getPending,
                 timers, checkoutResult, nops, savedAtMount, tally, opsAtSuccess, reloadedFrom>>

\* What GET /api/cart may answer in res.data.cart.items
ServerCarts ==
  { << >>,
    <<[product_id |-> "p2", price |-> 3, quantity |-> 1]>> }

\* res.data.cart.items.map(i => ({id: i.product_id, ..., quantity: i.quantity}))
ServerItems(items) ==
  [i \in 1..Len(items) |->
     Item(items[i].product_id, items[i].price, items[i].quantity)]

\* syncFromServer taking a response without cart.items for an empty cart
SyncResponseDefaultsToEmpty(outcome, items) ==
  /\ getPending
  /\ getPending' = FALSE
  /\ LET adopt ==
           /\ outcome \in {"items", "noitems"}
           /\ \/ ~localStorage.exists
              \/ Len(Parse(localStorage.text)) = 0
     IN  /\ pendingItems' =
              IF adopt
              THEN Arr(FreshRef,
                       IF outcome = "items" THEN ServerItems(items) ELSE << >>)
              ELSE pendingItems
         /\ lastEvent' = Event("sync", outcome, NoProduct, Undefined, 0, adopt,
                               cartItems, {})
  /\ UNCHANGED <<formVars, token, localStorage, cartItems, totalPrice, pendingTotal,
                 mountPending, effectPending, inflight, timers, checkoutResult,
                 nops, savedAtMount, tally, opsAtSuccess, reloadedFrom>>

\* The continuation of syncFromServer after the await (lines 187-203).
\* outcome: "fail" (the GET rejects), "noitems" (no res.data.cart.items),
\* "items".
SyncResponse(outcome, items) ==
  /\ getPending
  /\ getPending' = FALSE
  /\ LET adopt ==
           /\ outcome = "items"
           /\ \/ ~localStorage.exists
              \/ Len(Parse(localStorage.text)) = 0
     IN  /\ pendingItems' =
              IF adopt THEN Arr(FreshRef, ServerItems(items)) ELSE pendingItems
         /\ lastEvent' = Event("sync", outcome, NoProduct, Undefined, 0, adopt,
                               cartItems, {})
  /\ UNCHANGED <<formVars, token, localStorage, cartItems, totalPrice, pendingTotal,
                 mountPending, effectPending, inflight, timers, checkoutResult,
                 nops, savedAtMount, tally, opsAtSuccess, reloadedFrom>>

----------------------------------------------------------------------------
(* The operations the provider exposes, called from the rendered UI: each   *)
(* runs with the closure of the committed render.                          *)

CanCall == ~mountPending /\ nops < MaxOps

\* addToCart up to its await (lines 11-20), or all of it for a guest
CallAddToCart(product, quantity) ==
  /\ CanCall
  /\ nops' = nops + 1
  /\ IF token
     THEN Write([Cur EXCEPT
                   !.reqs = Append(@, Request("post", product,
                                              ProductKey(product), quantity,
                                              cartItems))])
     ELSE Write(addLocal(Cur, cartItems, product, quantity, FreshRef))
  /\ lastEvent' = CallEvent("add", product, ProductKey(product), quantity)
  /\ tally' = TallyAdd(product, quantity)
  /\ UNCHANGED <<formVars, token, cartItems, totalPrice, mountPending, effectPending,
                 getPending, timers, checkoutResult, savedAtMount, opsAtSuccess,
                 reloadedFrom>>

CallRemoveFromCart(productId) ==
  /\ CanCall
  /\ nops' = nops + 1
  /\ Write(removeFromCart(Cur, cartItems, productId, FreshRef))
  /\ lastEvent' = CallEvent("remove", NoProduct, productId, 0)
  /\ tally' = TallyOther
  /\ UNCHANGED <<formVars, token, cartItems, totalPrice, mountPending, effectPending,
                 getPending, timers, checkoutResult, savedAtMount, opsAtSuccess,
                 reloadedFrom>>

CallUpdateQuantity(productId, newQuantity) ==
  /\ CanCall
  /\ nops' = nops + 1
  /\ Write(updateQuantity(Cur, cartItems, productId, newQuantity, FreshRef))
  /\ lastEvent' = CallEvent("update", NoProduct, productId, newQuantity)
  /\ tally' = TallyOther
  /\ UNCHANGED <<formVars, token, cartItems, totalPrice, mountPending, effectPending,
                 getPending, timers, checkoutResult, savedAtMount, opsAtSuccess,
                 reloadedFrom>>

CallClearCart ==
  /\ CanCall
  /\ nops' = nops + 1
  /\ Write(clearCart(Cur, cartItems, FreshRef))
  /\ lastEvent' = CallEvent("clear", NoProduct, Undefined, 0)
  /\ tally' = TallyOther
  /\ UNCHANGED <<formVars, token, cartItems, totalPrice, mountPending, effectPending,
                 getPending, timers, checkoutResult, savedAtMount, opsAtSuccess,
                 reloadedFrom>>

\* checkout without its cartItems.length === 0 test
CallCheckoutAnyCart ==
  /\ CanCall
  /\ nops' = nops + 1
  /\ timers' = Append(timers, cartItems)
  /\ UNCHANGED checkoutResult
  /\ lastEvent' = CallEvent("checkout", NoProduct, Undefined, 0)
  /\ tally' = TallyOther
  /\ UNCHANGED <<formVars, token, localStorage, cartItems, totalPrice, pendingItems,
                 pendingTotal, mountPending, effectPending, getPending,
                 inflight, savedAtMount, opsAtSuccess, reloadedFrom>>

\* checkout (lines 153-166): rejects on an empty cart, else arms the timer
\* whose callback holds this render's clearCart.
CallCheckout ==
  /\ CanCall
  /\ nops' = nops + 1
  /\ IF Len(cartItems.items) = 0
     THEN /\ checkoutResult' = "Cart is empty"
          /\ UNCHANGED timers
     ELSE /\ timers' = Append(timers, cartItems)
          /\ UNCHANGED checkoutResult
  /\ lastEvent' = CallEvent("checkout", NoProduct, Undefined, 0)
  /\ tally' = TallyOther
  /\ UNCHANGED <<formVars, token, localStorage, cartItems, totalPrice, pendingItems,
                 pendingTotal, mountPending, effectPending, getPending,
                 inflight, savedAtMount, opsAtSuccess, reloadedFrom>>

\* The setTimeout callback of checkout (lines 161-164)
CheckoutTimer(i) ==
  /\ i \in 1..Len(timers)
  /\ timers' = RemoveAt(timers, i)
  /\ Write(clearCart(Cur, timers[i], FreshRef))
  /\ checkoutResult' = "success"
  /\ opsAtSuccess' = nops
  /\ lastEvent' = Event("timer", "checkout", NoProduct, Undefined, 0, TRUE,
                        timers[i], {})
  /\ UNCHANGED <<formVars, token, cartItems, totalPrice, mountPending, effectPending,
                 getPending, nops, savedAtMount, tally, reloadedFrom>>

----------------------------------------------------------------------------
(* The server's answers *)

\* What the server accepted when it answered request r with success.
EffectOf(r) ==
  IF r.op = "post" THEN AcceptedEffect("has", r.productId, 0)
  ELSE IF r.op = "delete" THEN AcceptedEffect("lacks", r.productId, 0)
  ELSE IF r.op = "put" THEN AcceptedEffect("quantity", r.productId, r.quantity)
  ELSE AcceptedEffect("empty", Undefined, 0)

\* History: the requests issued before request i note what it had accepted.
NoteAccepted(reqs, i) ==
  [j \in 1..Len(reqs) |->
     IF j < i
     THEN [reqs[j] EXCEPT !.accepted = @ \cup {EffectOf(reqs[i])}]
     ELSE reqs[j]]

\* The .then / .catch of a request, or addToCart after its await.
Respond(i, ok) ==
  /\ i \in 1..Len(inflight)
  /\ LET r == inflight[i]
         rest == RemoveAt(IF ok THEN NoteAccepted(inflight, i) ELSE inflight, i)
         s == [Cur EXCEPT !.reqs = rest]
     IN  /\ Write(IF r.op = "post"
                  THEN IF ok
                       THEN addSynced(s, r.prev, r.product, r.quantity, FreshRef)
                       ELSE addLocal(s, r.prev, r.product, r.quantity, FreshRef)
                  ELSE IF ok THEN s ELSE rollback(s, r.prev))
         /\ lastEvent' = Event("response", r.op, r.product, r.productId,
                               r.quantity, ok, r.prev, r.accepted)
  /\ UNCHANGED <<formVars, token, cartItems, totalPrice, mountPending, effectPending,
                 getPending, timers, checkoutResult, nops, savedAtMount, tally, opsAtSuccess, reloadedFrom>>

----------------------------------------------------------------------------
(* Specification of the cart provider *)

Next ==
  \/ MountEffects
  \/ Render
  \/ PersistEffect
  \/ \E outcome \in {"fail", "noitems", "items"}, items \in ServerCarts :
       SyncResponse(outcome, items)
  \/ \E product \in Products, quantity \in AddQuantities :
       CallAddToCart(product, quantity)
  \/ \E productId \in ProductIds : CallRemoveFromCart(productId)
  \/ \E productId \in ProductIds, newQuantity \in NewQuantities :
       CallUpdateQuantity(productId, newQuantity)
  \/ CallClearCart
  \/ CallCheckout
  \/ \E i \in 1..Len(timers) : CheckoutTimer(i)
  \/ \E i \in 1..Len(inflight), ok \in BOOLEAN : Respond(i, ok)

Spec == Init /\ [][Next]_vars

----------------------------------------------------------------------------
(* A guest session with reloads of the page *)

\* No re-render and no effect is pending: the cart shown has been saved by
\* the [cartItems] effect.
Persisted ==
  /\ ~mountPending
  /\ ~effectPending
  /\ pendingItems = cartItems
  /\ pendingTotal = totalPrice

\* The page is reloaded: the provider is constructed again (useState([]),
\* useState(0), the two effects scheduled).  The requests, timers and
\* promises of the page left are gone; local storage stays.
Reload ==
  /\ ~mountPending
  /\ cartItems' = Arr(0, << >>)
  /\ totalPrice' = 0
  /\ pendingItems' = Arr(0, << >>)
  /\ pendingTotal' = 0
  /\ mountPending' = TRUE
  /\ effectPending' = FALSE
  /\ getPending' = FALSE
  /\ inflight' = << >>
  /\ timers' = << >>
  /\ checkoutResult' = "none"
  /\ savedAtMount' = localStorage
  /\ lastEvent' = NoEvent
  /\ tally' = NoTally
  /\ opsAtSuccess' = -1
  /\ reloadedFrom' =
       IF Persisted
       THEN [known |-> TRUE, items |-> cartItems.items, total |-> totalPrice,
             nops |-> nops]
       ELSE NotReloaded
  /\ UNCHANGED <<formVars, token, localStorage, nops>>

GuestInit == Init /\ token = FALSE

\* With no token the mount sends no GET and the operations no request, so
\* no response is ever awaited.
GuestNext ==
  \/ MountEffects
  \/ Render
  \/ PersistEffect
  \/ \E product \in Products, quantity \in AddQuantities :
       CallAddToCart(product, quantity)
  \/ \E productId \in ProductIds : CallRemoveFromCart(productId)
  \/ \E productId \in ProductIds, newQuantity \in NewQuantities :
       CallUpdateQuantity(productId, newQuantity)
  \/ CallClearCart
  \/ CallCheckout
  \/ \E i \in 1..Len(timers) : CheckoutTimer(i)
  \/ Reload

\* Specification of the cart provider in a guest session
GuestSpec == GuestInit /\ [][GuestNext]_vars

----------------------------------------------------------------------------
(* ChangePassword: the handlers.  They run from DOM events of the rendered  *)
(* form, so each sees the committed state.                                 *)

Shown == location = "/change-password"

\* handleChange (lines 66-80); the fields are disabled while loading
handleChange(name, value) ==
  /\ Shown
  /\ ~loading
  /\ formData' = [formData EXCEPT ![name] = value]
  /\ errors' =
       IF name \in DOMAIN errors /\ errors[name] # ""
       THEN [errors EXCEPT ![name] = ""]
       ELSE errors
  /\ validated' = NotValidated
  /\ UNCHANGED <<cartVars, loading, success, error, awaiting, redirects,
                 location>>

\* handleSubmit going on whatever validateForm returns
handleSubmitIgnoresValidation ==
  /\ Shown
  /\ ~loading
  /\ redirects < MaxSubmits
  /\ error' = ""
  /\ success' = ""
  /\ errors' = newErrors(formData)
  /\ validated' =
       [done |-> TRUE, data |-> formData, result |-> validateForm(formData)]
  /\ loading' = TRUE
  /\ awaiting' = TRUE
  /\ UNCHANGED <<cartVars, formData, redirects, location>>

\* handleSubmit up to its await (lines 82-106); the submit button is
\* disabled while loading
handleSubmit ==
  /\ Shown
  /\ ~loading
  /\ redirects < MaxSubmits
  /\ error' = ""
  /\ success' = ""
  /\ errors' = newErrors(formData)
  /\ validated' =
       [done |-> TRUE, data |-> formData, result |-> validateForm(formData)]
  /\ IF ~validateForm(formData)
     THEN UNCHANGED <<loading, awaiting>>
     ELSE loading' = TRUE /\ awaiting' = TRUE
  /\ UNCHANGED <<cartVars, formData, redirects, location>>

\* handleSubmit after its await (lines 108-128): the simulated request
\* resolves, never rejects
submitted ==
  /\ awaiting
  /\ awaiting' = FALSE
  /\ success' = "Password changed successfully!"
  /\ formData' = EmptyForm
  /\ redirects' = redirects + 1
  /\ loading' = FALSE
  /\ UNCHANGED <<cartVars, errors, error, location, validated>>

\* setTimeout(() => navigate('/profile'), 2000) fires (lines 116-118)
redirect ==
  /\ redirects > 0
  /\ redirects' = redirects - 1
  /\ location' = "/profile"
  /\ UNCHANGED <<cartVars, formData, errors, loading, success, error,
                 awaiting, validated>>

\* The Cancel button (lines 255-264)
cancel ==
  /\ Shown
  /\ ~loading
  /\ location' = "/profile"
  /\ UNCHANGED <<cartVars, formData, errors, loading, success, error,
                 awaiting, redirects, validated>>

FormInit ==
  /\ FormConstructed
  /\ token = FALSE
  /\ localStorage = NoEntry
  /\ cartItems = Arr(0, << >>)
  /\ totalPrice = 0
  /\ pendingItems = cartItems
  /\ pendingTotal = 0
  /\ mountPending = TRUE
  /\ effectPending = FALSE
  /\ getPending = FALSE
  /\ inflight = << >>
  /\ timers = << >>
  /\ checkoutResult = "none"
  /\ nops = 0
  /\ savedAtMount = localStorage
  /\ lastEvent = NoEvent
  /\ tally = NoTally
  /\ opsAtSuccess = -1
  /\ reloadedFrom = NotReloaded

FormNext ==
  \/ \E value \in CurrentPasswords : handleChange("currentPassword", value)
  \/ \E value \in Passwords : handleChange("newPassword", value)
  \/ \E value \in ConfirmPasswords : handleChange("confirmPassword", value)
  \/ handleSubmit
  \/ submitted
  \/ redirect
  \/ cancel

\* Specification of the change-password form
FormSpec == FormInit /\ [][FormNext]_vars

----------------------------------------------------------------------------
(* Properties of the cart provider *)

\* No re-render and no effect is pending.
Quiescent ==
  /\ ~mountPending
  /\ ~effectPending
  /\ pendingItems = cartItems
  /\ pendingTotal = totalPrice

\* The quantity of the line of productId, 0 when the cart has none.
Qty(items, productId) ==
  IF Has(items, productId) THEN Find(items, productId).quantity ELSE 0

\* What an optimistic operation makes of the list it was called on.
Expected(op, productId, quantity, items) ==
  IF op = "remove" THEN Filter(items, productId)
  ELSE IF op = "update" THEN MapQuantity(items, productId, quantity)
  ELSE << >>

OptimisticCall ==
  /\ lastEvent.kind = "call"
  /\ \/ lastEvent.op \in {"remove", "clear"}
     \/ lastEvent.op = "update" /\ lastEvent.quantity > 0

OptimisticResponse ==
  /\ lastEvent.kind = "response"
  /\ lastEvent.op \in {"delete", "put", "clear"}

\* C1: removeFromCart, updateQuantity (newQuantity > 0) and clearCart called
\* with a token apply their change to cartItems and totalPrice at once and
\* send their request; when the request fails cartItems is set back to
\* exactly the list the operation was called on and totalPrice to its price
\* sum; when it succeeds nothing changes.
C1_OptimisticUpdateAndRollback ==
  /\ (token /\ OptimisticCall) =>
       /\ pendingItems.items =
            Expected(lastEvent.op, lastEvent.productId, lastEvent.quantity,
                     lastEvent.prev.items)
       /\ pendingTotal = Sum(pendingItems.items)
       /\ inflight # << >>
       /\ inflight[Len(inflight)].prev = lastEvent.prev
  /\ (OptimisticResponse /\ ~lastEvent.ok) =>
       /\ pendingItems = lastEvent.prev
       /\ pendingTotal = Sum(lastEvent.prev.items)
  /\ (OptimisticResponse /\ lastEvent.ok) =>
       /\ pendingItems = lastEvent.before
       /\ pendingTotal = lastEvent.beforeTotal

\* A failed DELETE has put back a line the optimistic update had removed.
C1_Witness ==
  /\ OptimisticResponse
  /\ ~lastEvent.ok
  /\ lastEvent.op = "delete"
  /\ Len(lastEvent.before.items) < Len(lastEvent.prev.items)
  /\ pendingItems = lastEvent.prev
  /\ pendingTotal > lastEvent.beforeTotal

SavedNonEmpty == savedAtMount.exists /\ Len(savedAtMount.text) > 0

\* C2: when local storage holds a non-empty cart at mount, then once the
\* mount load and the server fetch are over (and before any operation)
\* cartItems is the stored cart; the server's items are adopted only with a
\* token and a missing or empty stored cart.
C2_LocalCartPreferred ==
  /\ (SavedNonEmpty /\ Quiescent /\ ~getPending /\ nops = 0) =>
       cartItems.items = Parse(savedAtMount.text)
  /\ (lastEvent.kind = "sync" /\ lastEvent.ok) => (token /\ ~SavedNonEmpty)

\* C3: in every state where no re-render or effect is pending, totalPrice is
\* the sum over cartItems of price * quantity.
C3_TotalPriceIsSum ==
  Quiescent => totalPrice = Sum(cartItems.items)

\* All the operations of a session done and answered, with a cart left.
C3_Witness ==
  /\ Quiescent
  /\ token
  /\ nops = MaxOps
  /\ inflight = << >>
  /\ Len(cartItems.items) > 0
  /\ totalPrice = Sum(cartItems.items)
  /\ cartItems.items # Parse(savedAtMount.text)

\* C4: in every state where no re-render or effect is pending, the
\* local-storage entry holds the serialization of cartItems.
C4_CartPersisted ==
  Quiescent => localStorage = Entry(Stringify(cartItems.items))

\* A guest's checkout has cleared the cart (clearCart removed the entry) and
\* the entry is back, holding the empty cart.
C4_Witness ==
  /\ Quiescent
  /\ ~token
  /\ SavedNonEmpty
  /\ checkoutResult = "success"
  /\ timers = << >>
  /\ localStorage = Entry(<< >>)

\* An addToCart call on an up-to-date cart, for a product that carries an
\* id, that leaves a positive quantity.
PlainAddCall ==
  /\ lastEvent.kind = "call"
  /\ lastEvent.op = "add"
  /\ lastEvent.before = lastEvent.prev
  /\ lastEvent.product.id # Undefined
  /\ Qty(lastEvent.prev.items, lastEvent.product.id) + lastEvent.quantity > 0

\* C6: with no token no request is sent, by the mount effect or by any
\* operation (checkout included), and addToCart, removeFromCart,
\* updateQuantity and clearCart apply their change to the local cart.
C6_NoTokenNoRequest ==
  ~token =>
    /\ inflight = << >>
    /\ ~getPending
    /\ OptimisticCall =>
         pendingItems.items =
           Expected(lastEvent.op, lastEvent.productId, lastEvent.quantity,
                    lastEvent.prev.items)
    /\ PlainAddCall =>
         Qty(pendingItems.items, lastEvent.product.id) =
           Qty(lastEvent.prev.items, lastEvent.product.id) + lastEvent.quantity

\* A guest has removed a line of a cart.
C6_Witness ==
  /\ ~token
  /\ lastEvent.kind = "call"
  /\ lastEvent.op = "remove"
  /\ Len(pendingItems.items) < Len(lastEvent.prev.items)
  /\ inflight = << >>

\* Whether an effect the server accepted shows in the list.
Shows(e, items) ==
  IF e.kind = "has" THEN Has(items, e.productId)
  ELSE IF e.kind = "lacks" THEN ~Has(items, e.productId)
  ELSE IF e.kind = "quantity"
       THEN Has(items, e.productId) /\ Qty(items, e.productId) = e.quantity
  ELSE items = << >>

\* C7: when the request of A (removeFromCart, updateQuantity or clearCart)
\* fails, the effect of every operation B issued after A and accepted by the
\* server while A was pending, which the cart showed just before the
\* rollback, still shows in the cart after it.
C7_RollbackKeepsLaterEffects ==
  (OptimisticResponse /\ ~lastEvent.ok) =>
    \A e \in lastEvent.accepted :
      Shows(e, lastEvent.before.items) => Shows(e, pendingItems.items)

\* C8: addToCart with a token sends one POST and leaves the local cart as it
\* is; when the POST is answered, success or failure, with no other
\* operation in between, the cart holds the product with its previous
\* quantity plus the added one.
C8_AddSurvivesFailure ==
  /\ (token /\ lastEvent.kind = "call" /\ lastEvent.op = "add") =>
       /\ pendingItems = lastEvent.before
       /\ pendingTotal = lastEvent.beforeTotal
       /\ inflight # << >>
       /\ inflight[Len(inflight)].op = "post"
  /\ (/\ lastEvent.kind = "response"
      /\ lastEvent.op = "post"
      /\ lastEvent.before = lastEvent.prev
      /\ Qty(lastEvent.prev.items, lastEvent.productId) + lastEvent.quantity > 0) =>
       /\ Has(pendingItems.items, lastEvent.productId)
       /\ Qty(pendingItems.items, lastEvent.productId) =
            Qty(lastEvent.prev.items, lastEvent.productId) + lastEvent.quantity

NoDuplicateIds(items) ==
  \A i, j \in 1..Len(items) :
    (i # j /\ items[i].id # Undefined) => items[i].id # items[j].id

\* C9: with the POST requests of addToCart answered in any order, cartItems
\* never holds two entries with the same id.
C9_UniqueLineItems ==
  token => NoDuplicateIds(cartItems.items)

\* C10: once every addToCart call (for products carrying an id, with
\* positive quantities, calls overlapping while POST requests are pending)
\* has completed, each product's line holds its initial quantity plus the
\* quantities added.
C10_NoAdditionLost ==
  (token /\ tally.state = "on" /\ inflight = << >>) =>
    \A k \in ProductIds :
      Qty(pendingItems.items, k) = Qty(tally.base, k) + tally.add[k]

\* updateQuantity has just been called with a quantity of 0 or less.
RemovingUpdate ==
  /\ lastEvent.kind = "call"
  /\ lastEvent.op = "update"
  /\ lastEvent.quantity <= 0

\* C11: updateQuantity(productId, newQuantity) with newQuantity <= 0 does what
\* removeFromCart(productId) does: the line leaves cartItems, totalPrice is
\* the sum without it, with a token one DELETE for productId (no PUT) is
\* sent and with none no request; a DELETE that fails puts back the list the
\* call was made on, the line with its previous quantity.
C11_NonPositiveUpdateRemoves ==
  /\ RemovingUpdate =>
       /\ pendingItems.items = Filter(lastEvent.prev.items, lastEvent.productId)
       /\ ~Has(pendingItems.items, lastEvent.productId)
       /\ pendingTotal = Sum(Filter(lastEvent.prev.items, lastEvent.productId))
       /\ token =>
            /\ inflight # << >>
            /\ inflight[Len(inflight)].op = "delete"
            /\ inflight[Len(inflight)].productId = lastEvent.productId
            /\ inflight[Len(inflight)].prev = lastEvent.prev
       /\ ~token => inflight = << >>
  /\ (lastEvent.kind = "response" /\ lastEvent.op = "delete" /\ ~lastEvent.ok) =>
       /\ pendingItems.items = lastEvent.prev.items
       /\ Qty(pendingItems.items, lastEvent.productId) =
            Qty(lastEvent.prev.items, lastEvent.productId)
       /\ pendingTotal = Sum(lastEvent.prev.items)

\* updateQuantity(productId, 0) with a token has taken a line out of the cart
\* and its DELETE is in flight.
C11_Witness ==
  /\ RemovingUpdate
  /\ token
  /\ Has(lastEvent.prev.items, lastEvent.productId)
  /\ Len(pendingItems.items) < Len(lastEvent.prev.items)
  /\ pendingTotal < Sum(lastEvent.prev.items)
  /\ inflight[Len(inflight)].op = "delete"

\* C12: from a stored or server cart whose quantities are all positive,
\* whatever addToCart (with a positive or a negative quantity, with or
\* without a token), updateQuantity and removeFromCart are called, every
\* line of cartItems has a quantity greater than 0.
C12_PositiveQuantities ==
  \A i \in 1..Len(cartItems.items) : cartItems.items[i].quantity > 0

\* checkout has resolved with success and no operation was called since.
SuccessUntouched ==
  /\ checkoutResult = "success"
  /\ opsAtSuccess = nops

\* C13: once checkout has resolved with success, and as long as no further
\* operation is called, the cart is empty: the queued cartItems is the empty
\* list, and so is the cartItems of every render with nothing queued.
C13_EmptyAfterCheckout ==
  SuccessUntouched =>
    /\ pendingItems.items = << >>
    /\ Quiescent => cartItems.items = << >>

\* The step is a call of checkout by a render whose cartItems is empty.
CheckoutOfEmptyCart ==
  /\ nops' = nops + 1
  /\ lastEvent'.kind = "call"
  /\ lastEvent'.op = "checkout"
  /\ Len(cartItems.items) = 0

\* C14: a call of checkout on an empty cart settles as rejected with 'Cart
\* is empty', sends no request, arms no timer and leaves cartItems,
\* totalPrice (committed and queued) and the local-storage entry as they are.
C14_EmptyCheckoutRejected ==
  [][CheckoutOfEmptyCart =>
       /\ checkoutResult' = "Cart is empty"
       /\ UNCHANGED <<inflight, timers, cartItems, totalPrice, pendingItems,
                      pendingTotal, localStorage, getPending>>]_vars

\* checkout has just been rejected on an empty cart, with a token.
C14_Witness ==
  /\ lastEvent.kind = "call"
  /\ lastEvent.op = "checkout"
  /\ Len(lastEvent.prev.items) = 0
  /\ token
  /\ checkoutResult = "Cart is empty"
  /\ timers = << >>

\* The step is the end of a GET /api/cart that failed or whose response
\* carries no cart.items.
FetchFailsOrMalformed ==
  /\ getPending
  /\ ~getPending'
  /\ lastEvent'.kind = "sync"
  /\ lastEvent'.op \in {"fail", "noitems"}

\* C15: when the GET of the mount fails or its response carries no
\* cart.items, cartItems and totalPrice (committed and queued), the
\* local-storage entry, the requests, the timers and checkout's result are
\* left as they are; with no operation called yet, the queued cartItems is
\* what the mount load made of local storage (the stored cart, or the empty
\* list).
C15_FailedFetchHarmless ==
  [][FetchFailsOrMalformed =>
       /\ UNCHANGED <<cartItems, totalPrice, pendingItems, pendingTotal,
                      localStorage, inflight, timers, checkoutResult>>
       /\ nops = 0 => pendingItems'.items = Parse(savedAtMount.text)]_vars

\* The GET has failed after the mount load had read a cart from local
\* storage, before any operation.
C15_Witness ==
  /\ lastEvent.kind = "sync"
  /\ lastEvent.op = "fail"
  /\ nops = 0
  /\ SavedNonEmpty
  /\ pendingItems.items = Parse(savedAtMount.text)
  /\ ~getPending

\* The page was reloaded from a saved cart, the provider has mounted again
\* and no operation was called since.
AfterReload ==
  /\ ~token
  /\ reloadedFrom.known
  /\ reloadedFrom.nops = nops
  /\ Quiescent

\* C16: with no token, when the page is reloaded with a cart (reached by any
\* operations) that has been saved, then once the provider has mounted again
\* and re-rendered, cartItems is the cart before the reload and totalPrice
\* the total before the reload.
C16_GuestCartSurvivesReload ==
  AfterReload =>
    /\ cartItems.items = reloadedFrom.items
    /\ totalPrice = reloadedFrom.total

\* A cart with a line whose quantity updateQuantity has set has come back
\* after a reload.
C16_Witness ==
  /\ AfterReload
  /\ nops > 0
  /\ \E i \in 1..Len(cartItems.items) :
       cartItems.items[i].quantity \in NewQuantities
  /\ cartItems.items = reloadedFrom.items
  /\ totalPrice > 0
  /\ localStorage = Entry(Stringify(cartItems.items))

----------------------------------------------------------------------------
(* Properties of the change-password form *)

Contains(str, class) == \E i \in 1..Len(str) : str[i] \in class

\* The fields of a form that break a rule.
FailingFields(data) ==
  { f \in {"currentPassword"} : data.currentPassword = << >> }
    \cup { f \in {"newPassword"} :
             \/ Len(data.newPassword) < 8
             \/ ~Contains(data.newPassword, Lower)
             \/ ~Contains(data.newPassword, Upper)
             \/ ~Contains(data.newPassword, Digit) }
    \cup { f \in {"confirmPassword"} :
             \/ data.confirmPassword = << >>
             \/ data.confirmPassword # data.newPassword }

InvalidSubmission ==
  /\ validated' # validated
  /\ validated'.done
  /\ ~validated'.result

\* C17: a submission of invalid data shows field errors and nothing else:
\* loading stays false, no wait is started, the success message stays
\* empty, the fields keep their values, no navigation is armed and the route
\* stays; and the success message appears only in a step that ends the wait
\* of a submission whose data validateForm accepted.
C17_InvalidSubmitOnlyShowsErrors ==
  [][/\ InvalidSubmission =>
          /\ DOMAIN errors' # {}
          /\ ~loading'
          /\ ~awaiting'
          /\ success' = ""
          /\ formData' = formData
          /\ redirects' = redirects
          /\ location' = location
     /\ (success' # "" /\ success' # success) =>
          /\ awaiting
          /\ validated.done
          /\ validated.result
          /\ validated.data = formData]_vars

\* A form whose new password is long enough but breaks a rule has been
\* submitted after an earlier success: the message is gone and the errors
\* show.
C17_Witness ==
  /\ validated.done
  /\ ~validated.result
  /\ Len(formData.newPassword) >= MinLength
  /\ formData.currentPassword # << >>
  /\ DOMAIN errors # {}
  /\ ~loading
  /\ success = ""
  /\ redirects > 0

\* The step is a submission of data that validateForm accepts.
ValidSubmission ==
  /\ validated' # validated
  /\ validated'.done
  /\ validated'.result

\* The step is the firing of a timer that navigates to /profile.
TimerNavigates ==
  /\ redirects' < redirects
  /\ location' = "/profile"

\* C18: a valid submission sets loading; the success message is set while
\* loading is true; loading goes back to false only with the message set and
\* the three fields cleared; the timer navigates to /profile only when
\* loading is false; and while loading is true no submission starts.
C18_SubmissionRunsInOrder ==
  [][/\ ValidSubmission => (loading' /\ awaiting' /\ success' = "")
     /\ (success' # "" /\ success' # success) => loading
     /\ (loading /\ ~loading') => (success' # "" /\ formData' = EmptyForm)
     /\ TimerNavigates => ~loading
     /\ loading => validated' = validated]_vars

====
